---- MODULE Spec2Model ----
(***************************************************************************)
(* Model of noteTrans.py: ABC score -> kalimba tablature.                  *)
(*                                                                         *)
(* Python strings are modelled as sequences of one-character strings, so   *)
(* that the character filters (str.isalpha, str.isdigit), int() and the    *)
(* f-string formatting are computed as the code computes them.             *)
(* An optional value (None or v) is modelled as <<>> or <<v>>.             *)
(***************************************************************************)
EXTENDS Integers, Sequences, FiniteSets

(***************************** bounds **************************************)
\* kalimba_size ranges over (-MaxBelow)..MaxTines
MaxBelow == 1
MaxTines == 25
\* octaves of the notes of a score range over (-MaxNegOctave)..MaxOctave, or are absent
MaxNegOctave == 3
MaxOctave == 10
\* longest score made of arbitrary elements of SampleElements
MaxLen == 3
\* the long scores fill up to MaxRows full rows of the drawing (plus one glyph)
MaxRows == 2

(************************* strings and numbers *****************************)
None == <<>>

Some(v) == <<v>>

Steps == <<"C", "D", "E", "F", "G", "A", "B">>

Letters == {"A", "B", "C", "D", "E", "F", "G"}

DigitChars == <<"0", "1", "2", "3", "4", "5", "6", "7", "8", "9">>

\* str.isalpha on one character
isalpha(c) == c \in Letters

\* str.isdigit on one character
isdigit(c) == \E d \in 1..10 : DigitChars[d] = c

DigitVal(c) == (CHOOSE d \in 1..10 : DigitChars[d] = c) - 1

RECURSIVE NatStr(_)
NatStr(n) == IF n < 10 THEN <<DigitChars[n + 1]>>
             ELSE NatStr(n \div 10) \o <<DigitChars[(n % 10) + 1]>>

\* str(n) of a Python int, as an f-string formats it
Str(n) == IF n < 0 THEN <<"-">> \o NatStr(0 - n) ELSE NatStr(n)

RECURSIVE int(_)
\* int(s) of a non-empty string of digits
int(s) == IF Len(s) = 1 THEN DigitVal(s[1])
          ELSE 10 * int(SubSeq(s, 1, Len(s) - 1)) + DigitVal(s[Len(s)])

(***************************** the score ***********************************)
\* an element of the parsed score: a note (step, accidental modifier, octave)
\* or something that is not a note.Note
Note(s, a, o) == [isNote |-> TRUE, step |-> s, acc |-> a, octave |-> o]

Rest == [isNote |-> FALSE, step |-> "", acc |-> <<>>, octave |-> None]

\* music21's pitch.nameWithOctave: step, accidental modifier ("#", "-"), then
\* the octave in decimal when the pitch has one
nameWithOctave(el) ==
    <<el.step>> \o el.acc \o (IF el.octave = None THEN <<>> ELSE Str(el.octave[1]))

(************************** NOTE_TO_KALIMBA ********************************)
ReferenceKeys == <<
    <<"C", "2">>, <<"D", "2">>, <<"E", "2">>, <<"F", "2">>,
    <<"G", "2">>, <<"A", "2">>, <<"B", "2">>,
    <<"C", "3">>, <<"D", "3">>, <<"E", "3">>, <<"F", "3">>,
    <<"G", "3">>, <<"A", "3">>, <<"B", "3">>,
    <<"C", "4">>, <<"D", "4">>, <<"E", "4">>, <<"F", "4">>,
    <<"G", "4">>, <<"A", "4">>, <<"B", "4">>,
    <<"C", "5">>, <<"D", "5">>, <<"E", "5">> >>

DefaultTable ==
    [k \in {ReferenceKeys[n] : n \in 1..Len(ReferenceKeys)} |->
        CHOOSE n \in 1..Len(ReferenceKeys) : ReferenceKeys[n] = k]

VARIABLES
    pc,                  \* position of the run of main
    NOTE_TO_KALIMBA,     \* the module-level reference table
    input_abc,           \* the contents of the input file
    output_pdf,          \* None or Some(path)
    kalimba_size,
    octave_policy,
    kalimba_notes,       \* build_kalimba_map(kalimba_size)
    score,               \* converter.parse's result, flattened by recurse()
    idx,                 \* number of elements of score the loop has consumed
    kalimba_notes_list,  \* parse_abc_file's accumulator
    notes,               \* parse_abc_file's return value
    dwg,                 \* the elements added to the drawing
    x, y, i,             \* generate_svg's cursor and loop index
    files,               \* names of the files this run has written
    pdf_attempts,        \* calls of convert_svg_to_pdf
    outcome              \* how the run ended

vars == <<pc, NOTE_TO_KALIMBA, input_abc, output_pdf, kalimba_size, octave_policy,
          kalimba_notes, score, idx, kalimba_notes_list, notes, dwg, x, y, i,
          files, pdf_attempts, outcome>>

(************************** the pure functions *****************************)
\* variant: the comparison excludes the tine whose index equals max_tines
build_kalimba_map_exclusive(max_tines) ==
    LET kept == {k \in DOMAIN NOTE_TO_KALIMBA : NOTE_TO_KALIMBA[k] < max_tines}
    IN  [k \in kept |-> NOTE_TO_KALIMBA[k]]

build_kalimba_map(max_tines) ==
    LET kept == {k \in DOMAIN NOTE_TO_KALIMBA : NOTE_TO_KALIMBA[k] <= max_tines}
    IN  [k \in kept |-> NOTE_TO_KALIMBA[k]]

map_note_to_kalimba(note_name, table) ==
    IF note_name \in DOMAIN table THEN Some(table[note_name])
    ELSE LET base == SelectSeq(note_name, isalpha)
             num  == SelectSeq(note_name, isdigit)
         IN  IF num = <<>> THEN None
             ELSE LET octave   == int(num)
                      new_note == base \o Str(octave - 1)
                  IN  IF new_note \in DOMAIN table THEN Some(table[new_note])
                      ELSE None

\* Python truthiness of an optional int
Truthy(m) == m # None /\ m[1] # 0

\* variant: the parity test is inverted
DirectionInverted(t) == IF t % 2 = 1 THEN "▲" ELSE "▼"

Direction(t) == IF t % 2 = 0 THEN "▲" ELSE "▼"

\* variant: under shift_down the shifted lookup replaces the direct one
\* whether or not the direct one succeeded
MapElementAlwaysShift(element, table, policy) ==
    IF ~element.isNote THEN None
    ELSE LET raw_note == nameWithOctave(element)
             base     == SelectSeq(raw_note, isalpha)
             num_part == SelectSeq(raw_note, isdigit)
         IN  IF num_part = <<>> THEN None
             ELSE IF policy = "shift_down"
                  THEN map_note_to_kalimba(base \o Str(int(num_part) - 1), table)
                  ELSE map_note_to_kalimba(raw_note, table)

\* lines 110-133: what one element of the score adds to the accumulator
MapElement(element, table, policy) ==
    IF ~element.isNote THEN None
    ELSE LET raw_note == nameWithOctave(element)
             base     == SelectSeq(raw_note, isalpha)
             num_part == SelectSeq(raw_note, isdigit)
         IN  IF num_part = <<>> THEN None
             ELSE LET octave == int(num_part)
                      first  == map_note_to_kalimba(raw_note, table)
                  IN  IF first = None /\ policy = "shift_down"
                      THEN map_note_to_kalimba(base \o Str(octave - 1), table)
                      ELSE first

\* variant: the pair is inserted at the front of the accumulator
EmitFront(list, mapped_note) ==
    IF Truthy(mapped_note)
    THEN <<<<mapped_note[1], Direction(mapped_note[1])>>>> \o list
    ELSE list

\* lines 131-133
Emit(list, mapped_note) ==
    IF Truthy(mapped_note)
    THEN Append(list, <<mapped_note[1], Direction(mapped_note[1])>>)
    ELSE list

(*************************** generate_svg *********************************)
X0 == 20
Y0 == 50
spacing == 30
RowHeight == 40
PerRow == 16

SvgFile == "kalimba_tab.svg"

DefaultPdf == "kalimba_tab.pdf"

Title == [text |-> <<"Kalimba Tablature">>, insert |-> <<20, 30>>]

\* line 76-77: the text element of one note
Glyph(num, direction, gx, gy) ==
    [text |-> Str(num) \o <<direction>>, insert |-> <<gx, gy>>]

\* variant: the row test uses the index itself
RowEndsAtIndex(n) == n % PerRow = 0

\* lines 80-82: does the row end after the glyph of index n (0-based)?
RowEnds(n) == (n + 1) % PerRow = 0

(****************************** inputs *************************************)
TineCounts == (0 - MaxBelow)..MaxTines

Policies == {"ignore", "shift_down"}

Accidentals == {<<>>, <<"#">>, <<"-">>}

Octaves == {None} \cup {Some(o) : o \in (0 - MaxNegOctave)..MaxOctave}

AllNotes == {Note(Steps[s], a, o) : s \in 1..7, a \in Accidentals, o \in Octaves}

\* the k-th natural note of the scale that starts at C2 (k = 0, 1, ...)
ScaleNote(k) == Note(Steps[(k % 7) + 1], <<>>, Some(2 + (k \div 7)))

SampleElements == {ScaleNote(0), ScaleNote(1), ScaleNote(14), Rest}

RECURSIVE SeqsOfLen(_, _)
SeqsOfLen(S, n) ==
    IF n = 0 THEN {<<>>}
    ELSE {Append(q, e) : q \in SeqsOfLen(S, n - 1), e \in S}

ShortScores == UNION {SeqsOfLen(SampleElements, n) : n \in 0..MaxLen}

SingleScores == {<<e>> : e \in AllNotes}

\* n notes walking the 24 reference pitches with the given stride
Walk(n, stride) == [k \in 1..n |-> ScaleNote(((k - 1) * stride) % 24)]

LongScores ==
    {Walk(PerRow * r + extra, stride) : r \in 1..MaxRows, extra \in {0, 1}, stride \in {1, 5}}

Scores == ShortScores \cup SingleScores \cup LongScores

\* the input file: malformed, or a file that parses to a score
Inputs == {[malformed |-> TRUE, score |-> <<>>]}
          \cup {[malformed |-> FALSE, score |-> sc] : sc \in Scores}

PdfPaths == {None, Some("out.pdf")}

(**************************** the run of main ******************************)
Init ==
    /\ pc = "start"
    /\ NOTE_TO_KALIMBA = DefaultTable
    /\ input_abc = [malformed |-> FALSE, score |-> <<>>]
    /\ output_pdf = None
    /\ kalimba_size = 17
    /\ octave_policy = "shift_down"
    /\ kalimba_notes = <<>>
    /\ score = <<>>
    /\ idx = 0
    /\ kalimba_notes_list = <<>>
    /\ notes = <<>>
    /\ dwg = <<>>
    /\ x = 0
    /\ y = 0
    /\ i = 0
    /\ files = {}
    /\ pdf_attempts = 0
    /\ outcome = "running"

\* main is called with its arguments and builds the table (lines 142-146)
Main ==
    /\ pc = "start"
    /\ \E inp \in Inputs, out \in PdfPaths, size \in TineCounts, pol \in Policies :
          /\ input_abc' = inp
          /\ output_pdf' = out
          /\ kalimba_size' = size
          /\ octave_policy' = pol
          /\ kalimba_notes' = build_kalimba_map(size)
    /\ pc' = "parse"
    /\ UNCHANGED <<NOTE_TO_KALIMBA, score, idx, kalimba_notes_list, notes, dwg, x, y, i,
                   files, pdf_attempts, outcome>>

\* converter.parse raises; the handler returns [] (lines 103, 137-139)
ParseFail ==
    /\ pc = "parse"
    /\ input_abc.malformed
    /\ notes' = <<>>
    /\ pc' = "check"
    /\ UNCHANGED <<NOTE_TO_KALIMBA, input_abc, output_pdf, kalimba_size, octave_policy,
                   kalimba_notes, score, idx, kalimba_notes_list, dwg, x, y, i,
                   files, pdf_attempts, outcome>>

\* converter.parse returns the score (lines 103-105)
ParseOpen ==
    /\ pc = "parse"
    /\ ~input_abc.malformed
    /\ score' = input_abc.score
    /\ kalimba_notes_list' = <<>>
    /\ idx' = 0
    /\ pc' = "loop"
    /\ UNCHANGED <<NOTE_TO_KALIMBA, input_abc, output_pdf, kalimba_size, octave_policy,
                   kalimba_notes, notes, dwg, x, y, i, files, pdf_attempts, outcome>>

\* one iteration of the loop over score.recurse() (lines 107-133)
ParseStep ==
    /\ pc = "loop"
    /\ idx < Len(score)
    /\ kalimba_notes_list' =
          Emit(kalimba_notes_list, MapElement(score[idx + 1], kalimba_notes, octave_policy))
    /\ idx' = idx + 1
    /\ UNCHANGED <<pc, NOTE_TO_KALIMBA, input_abc, output_pdf, kalimba_size, octave_policy,
                   kalimba_notes, score, notes, dwg, x, y, i, files, pdf_attempts, outcome>>

\* the loop is over: return kalimba_notes_list (line 135)
ParseReturn ==
    /\ pc = "loop"
    /\ idx = Len(score)
    /\ notes' = kalimba_notes_list
    /\ pc' = "check"
    /\ UNCHANGED <<NOTE_TO_KALIMBA, input_abc, output_pdf, kalimba_size, octave_policy,
                   kalimba_notes, score, idx, kalimba_notes_list, dwg, x, y, i,
                   files, pdf_attempts, outcome>>

\* variant: the message is printed but main does not return
NoNotesNoReturn ==
    /\ pc = "check"
    /\ notes = <<>>
    /\ outcome' = "no_valid_notes"
    /\ dwg' = <<Title>>
    /\ x' = X0
    /\ y' = Y0
    /\ i' = 0
    /\ pc' = "svg"
    /\ UNCHANGED <<NOTE_TO_KALIMBA, input_abc, output_pdf, kalimba_size, octave_policy,
                   kalimba_notes, score, idx, kalimba_notes_list, notes,
                   files, pdf_attempts>>

\* "No valid notes found or error occurred." (lines 150-152)
NoNotes ==
    /\ pc = "check"
    /\ notes = <<>>
    /\ outcome' = "no_valid_notes"
    /\ pc' = "done"
    /\ UNCHANGED <<NOTE_TO_KALIMBA, input_abc, output_pdf, kalimba_size, octave_policy,
                   kalimba_notes, score, idx, kalimba_notes_list, notes, dwg, x, y, i,
                   files, pdf_attempts>>

\* generate_svg is entered: the drawing, the cursor, the title (lines 154-156, 69-73)
SvgBegin ==
    /\ pc = "check"
    /\ notes # <<>>
    /\ dwg' = <<Title>>
    /\ x' = X0
    /\ y' = Y0
    /\ i' = 0
    /\ pc' = "svg"
    /\ UNCHANGED <<NOTE_TO_KALIMBA, input_abc, output_pdf, kalimba_size, octave_policy,
                   kalimba_notes, score, idx, kalimba_notes_list, notes,
                   files, pdf_attempts, outcome>>

\* one iteration of the loop of generate_svg (lines 75-82)
SvgStep ==
    /\ pc = "svg"
    /\ i < Len(notes)
    /\ dwg' = Append(dwg, Glyph(notes[i + 1][1], notes[i + 1][2], x, y))
    /\ IF RowEnds(i)
       THEN x' = X0 /\ y' = y + RowHeight
       ELSE x' = x + spacing /\ y' = y
    /\ i' = i + 1
    /\ UNCHANGED <<pc, NOTE_TO_KALIMBA, input_abc, output_pdf, kalimba_size, octave_policy,
                   kalimba_notes, score, idx, kalimba_notes_list, notes,
                   files, pdf_attempts, outcome>>

\* dwg.save() (lines 84-85)
SvgSave ==
    /\ pc = "svg"
    /\ i = Len(notes)
    /\ files' = files \cup {SvgFile}
    /\ pc' = "export"
    /\ UNCHANGED <<NOTE_TO_KALIMBA, input_abc, output_pdf, kalimba_size, octave_policy,
                   kalimba_notes, score, idx, kalimba_notes_list, notes, dwg, x, y, i,
                   pdf_attempts, outcome>>

\* variant: the exception of write_pdf is not caught
ExportUncaught(raised) == IF raised THEN "uncaught_exception" ELSE "pdf_saved"

\* the outcome of convert_svg_to_pdf when write_pdf raises or not (lines 90-95):
\* the exception is caught and main returns normally either way
ExportOutcome(raised) == IF raised THEN "pdf_failed" ELSE "pdf_saved"

\* main calls convert_svg_to_pdf on either branch (lines 158-164, 88-95)
ConvertSvgToPdf ==
    /\ pc = "export"
    /\ \E raised \in BOOLEAN :
          /\ outcome' = ExportOutcome(raised)
          /\ files' = IF raised THEN files
                      ELSE files \cup {IF output_pdf # None THEN output_pdf[1] ELSE DefaultPdf}
    /\ pdf_attempts' = pdf_attempts + 1
    /\ pc' = "done"
    /\ UNCHANGED <<NOTE_TO_KALIMBA, input_abc, output_pdf, kalimba_size, octave_policy,
                   kalimba_notes, score, idx, kalimba_notes_list, notes, dwg, x, y, i>>

Next ==
    \/ Main
    \/ ParseFail
    \/ ParseOpen
    \/ ParseStep
    \/ ParseReturn
    \/ NoNotes
    \/ SvgBegin
    \/ SvgStep
    \/ SvgSave
    \/ ConvertSvgToPdf

Spec == Init /\ [][Next]_vars

(***************************************************************************)
(*                       The claims and their checks                       *)
(***************************************************************************)
\* the element the loop of parse_abc_file is about to consume
AtElement == pc = "loop" /\ idx < Len(score)

Current == score[idx + 1]

\* the pitch name of a note, and the pitch name one octave lower, as the
\* specification builds them: letter + accidental + octave
PitchName(el) == <<el.step>> \o el.acc \o Str(el.octave[1])

LowerPitchName(el) == <<el.step>> \o el.acc \o Str(el.octave[1] - 1)

\* zero or one MappedNote for one element of the score
PerNote(el, table, policy) ==
    LET m == MapElement(el, table, policy)
    IN  IF m = None THEN <<>> ELSE << <<m[1], IF m[1] % 2 = 1 THEN "▼" ELSE "▲">> >>

RECURSIVE Concatenated(_, _, _)
\* the per-note results of a score, one after the other
Concatenated(s, table, policy) ==
    IF s = <<>> THEN <<>>
    ELSE PerNote(Head(s), table, policy) \o Concatenated(Tail(s), table, policy)

RECURSIVE IsSubsequence(_, _)
IsSubsequence(a, b) ==
    IF a = <<>> THEN TRUE
    ELSE IF b = <<>> THEN FALSE
    ELSE IF Head(a) = Head(b) THEN IsSubsequence(Tail(a), Tail(b))
    ELSE IsSubsequence(a, Tail(b))

\* C1: under octave_policy = ignore a note whose pitch name is not a key of
\* the built table is dropped: the iteration that consumes it appends nothing.
C1_IgnoreDropsAbsent ==
    [][(/\ AtElement
        /\ octave_policy = "ignore"
        /\ Current.isNote
        /\ nameWithOctave(Current) \notin DOMAIN kalimba_notes)
       => kalimba_notes_list' = kalimba_notes_list]_vars

\* C2: under octave_policy = shift_down a note is dropped when neither its
\* pitch name nor the pitch name one octave lower is a key of the built table.
C2_SingleShift ==
    [][(/\ AtElement
        /\ octave_policy = "shift_down"
        /\ Current.isNote
        /\ Current.octave # None
        /\ PitchName(Current) \notin DOMAIN kalimba_notes
        /\ LowerPitchName(Current) \notin DOMAIN kalimba_notes)
       => kalimba_notes_list' = kalimba_notes_list]_vars

\* C3: with the default reference table (natural names only) every note that
\* carries an accidental is dropped, under both policies.
C3_AccidentalsDropped ==
    [][(/\ AtElement
        /\ Current.isNote
        /\ Current.acc # <<>>)
       => kalimba_notes_list' = kalimba_notes_list]_vars

\* C4: the accumulator is the per-note results (zero or one each) of the
\* elements consumed so far, in input order; the returned list is that of the
\* whole score; [C2, D2, C2] with 17 tines yields [(1,down),(2,up),(1,down)].
C4_OrderPreserving ==
    /\ pc = "loop" =>
          kalimba_notes_list =
              Concatenated(SubSeq(score, 1, idx), kalimba_notes, octave_policy)
    /\ (pc = "check" /\ ~input_abc.malformed) =>
          notes = Concatenated(score, kalimba_notes, octave_policy)
    /\ (/\ pc = "check"
        /\ score = <<ScaleNote(0), ScaleNote(1), ScaleNote(0)>>
        /\ kalimba_size = 17) =>
          notes = << <<1, "▼">>, <<2, "▲">>, <<1, "▼">> >>

C4_Witness ==
    /\ pc = "check"
    /\ score = <<ScaleNote(0), ScaleNote(1), ScaleNote(0)>>
    /\ kalimba_size = 17
    /\ notes = << <<1, "▼">>, <<2, "▲">>, <<1, "▼">> >>

\* position of a natural pitch name on the staff: seven steps per octave
StaffPosition ==
    [k \in DOMAIN DefaultTable |->
        7 * int(SelectSeq(k, isdigit)) + (CHOOSE s \in 1..7 : Steps[s] = k[1])]

EntriesKept(N) == IF N <= 0 THEN 0 ELSE IF N >= 24 THEN 24 ELSE N

\* C5: the built table holds exactly max(0, min(N, 24)) entries of the
\* reference table, its indices are exactly 1..that count and increase strictly
\* with pitch, and the reference table is as it was.
C5_BuiltTable ==
    /\ NOTE_TO_KALIMBA = DefaultTable
    /\ pc = "parse" =>
       /\ Cardinality(DOMAIN kalimba_notes) = EntriesKept(kalimba_size)
       /\ {kalimba_notes[k] : k \in DOMAIN kalimba_notes} = 1..EntriesKept(kalimba_size)
       /\ \A k \in DOMAIN kalimba_notes :
             k \in DOMAIN DefaultTable /\ kalimba_notes[k] = DefaultTable[k]
       /\ \A k1, k2 \in DOMAIN kalimba_notes :
             StaffPosition[k1] < StaffPosition[k2] <=> kalimba_notes[k1] < kalimba_notes[k2]

C5_Witness ==
    /\ pc = "parse"
    /\ kalimba_size > 24
    /\ Cardinality(DOMAIN kalimba_notes) = 24

WellFormed(m) ==
    /\ m[1] \in 1..kalimba_size
    /\ m[2] = "▼" <=> m[1] % 2 = 1
    /\ m[2] = "▲" <=> m[1] % 2 = 0

\* C6: every MappedNote the mapper emits has its tine index in
\* [1, tine_count], and is down exactly when the index is odd, up when even.
C6_MappedNoteShape ==
    /\ \A n \in 1..Len(kalimba_notes_list) : WellFormed(kalimba_notes_list[n])
    /\ \A n \in 1..Len(notes) : WellFormed(notes[n])

C6_Witness ==
    /\ pc = "check"
    /\ \E n1, n2 \in 1..Len(notes) :
          /\ notes[n1][1] % 2 = 1
          /\ notes[n2][1] % 2 = 0
          /\ notes[n2][1] = kalimba_size

\* C7: the SVG is written iff at least one note maps; with an empty mapped
\* sequence the run ends in the no-valid-notes state with no file written.
C7_SvgIffNotes ==
    /\ SvgFile \in files => notes # <<>>
    /\ pc = "done" =>
          /\ SvgFile \in files <=> notes # <<>>
          /\ notes = <<>> => (outcome = "no_valid_notes" /\ files = {})
          /\ outcome = "no_valid_notes" => notes = <<>>

C7_Witness ==
    /\ pc = "done"
    /\ outcome = "no_valid_notes"
    /\ ~input_abc.malformed
    /\ \E n \in 1..Len(score) : score[n].isNote
    /\ files = {}

\* C8: the export is attempted exactly once, after the SVG was saved, and never
\* without it; a failing export ends the run normally and leaves the SVG.
C8_StageOrder ==
    [][/\ pdf_attempts' # pdf_attempts =>
             /\ pc = "export"
             /\ SvgFile \in files
             /\ pdf_attempts = 0
             /\ pdf_attempts' = 1
       /\ pc' = "done" =>
             /\ pdf_attempts' = (IF SvgFile \in files' THEN 1 ELSE 0)
             /\ outcome' \in {"no_valid_notes", "pdf_saved", "pdf_failed"}
       /\ (pc = "export" /\ pc' = "done" /\ outcome' # "pdf_saved") =>
             /\ outcome' = "pdf_failed"
             /\ files' = {SvgFile}
       /\ SvgFile \in files => SvgFile \in files'
      ]_vars

C8_Witness ==
    /\ pc = "done"
    /\ outcome = "pdf_failed"
    /\ pdf_attempts = 1
    /\ files = {SvgFile}

\* C9: the drawing holds, after the title, one glyph per MappedNote in input
\* order; glyph n (0-based) is "<tine_index><direction>" at
\* (20 + 30 * (n mod 16), 50 + 40 * (n div 16)); no two glyphs share a place.
C9_GlyphGrid ==
    pc \in {"svg", "export", "done"} /\ dwg # <<>> =>
       /\ Len(dwg) = i + 1
       /\ pc \in {"export", "done"} => i = Len(notes)
       /\ \A n \in 0..(i - 1) :
             /\ dwg[n + 2].text = Str(notes[n + 1][1]) \o <<notes[n + 1][2]>>
             /\ dwg[n + 2].insert = <<20 + 30 * (n % 16), 50 + 40 * (n \div 16)>>
       /\ pc = "export" =>
             \A n1, n2 \in 0..(i - 1) :
                dwg[n1 + 2].insert = dwg[n2 + 2].insert => n1 = n2

C9_Witness ==
    /\ pc = "export"
    /\ Len(notes) = 33
    /\ Len(dwg) = 34
    /\ dwg[17].insert = <<470, 50>>
    /\ dwg[18].insert = <<20, 90>>
    /\ dwg[34].insert = <<20, 130>>

\* C10: a note that yields a MappedNote under ignore yields the same one
\* under shift_down, and the ignore output of a score is a subsequence of its
\* shift_down output.
C10_PoliciesAgree ==
    /\ AtElement =>
          LET ig == PerNote(Current, kalimba_notes, "ignore")
              sd == PerNote(Current, kalimba_notes, "shift_down")
          IN  ig # <<>> => sd = ig
    /\ (pc = "check" /\ ~input_abc.malformed /\ octave_policy = "shift_down") =>
          IsSubsequence(Concatenated(score, kalimba_notes, "ignore"), notes)
    /\ (pc = "check" /\ ~input_abc.malformed /\ octave_policy = "ignore") =>
          IsSubsequence(notes, Concatenated(score, kalimba_notes, "shift_down"))

C10_Witness ==
    /\ pc = "check"
    /\ octave_policy = "shift_down"
    /\ Concatenated(score, kalimba_notes, "ignore") # <<>>
    /\ Len(Concatenated(score, kalimba_notes, "ignore")) < Len(notes)

====
